---------------------------- MODULE Spec2Model ----------------------------
(***************************************************************************)
(* Model of src/utils.py: RunningStat (streaming mean / variance),         *)
(* NeighbourAgentBuffer (per-agent trajectory store with gap               *)
(* interpolation and windowed queries) and split_future.                   *)
(*                                                                         *)
(* Floating point numbers are modelled as exact rationals <<num, den>>     *)
(* with den > 0 and gcd(num, den) = 1.                                     *)
(***************************************************************************)
EXTENDS Integers, Sequences, FiniteSets, TLC

VARIABLES
    buffer,         \* NeighbourAgentBuffer.buffer : ids -> [values, timesteps]
    hist_length,    \* NeighbourAgentBuffer.hist_length
    future_length,  \* NeighbourAgentBuffer.future_length
    query_mode,     \* NeighbourAgentBuffer.query_mode
    state_shape,    \* NeighbourAgentBuffer.state_shape
    last,           \* the last call made: its name, arguments and outcome
    rs_n,           \* RunningStat._n
    rs_M,           \* RunningStat._M
    rs_S,           \* RunningStat._S
    egos,           \* split_future: argument egos
    future_steps,   \* split_future: argument future_steps
    split_i,        \* split_future: loop variable i (rows done so far)
    res,            \* split_future: local res
    masks           \* split_future: local masks

storeVars == <<buffer, hist_length, future_length, query_mode, state_shape>>
rsVars    == <<rs_n, rs_M, rs_S>>
splitVars == <<egos, future_steps, split_i, res, masks>>
vars      == <<storeVars, last, rsVars, splitVars>>

-----------------------------------------------------------------------------
(* Bounds of the model *)

MaxT     == 5    \* largest timestep passed to add (Spec)
MaxRows  == 6    \* rows stored over all agents (Spec)
MaxTQ    == 3    \* largest timestep passed to add (SpecQ)
MaxTF    == 12   \* largest timestep passed to add (SpecFut)
MaxPush  == 3    \* pushes made on one RunningStat (SpecRS)
MaxN     == 12   \* rows of the sequence given to split_future (SpecSplit)
MaxW     == 10   \* window length given to split_future (SpecSplit)

-----------------------------------------------------------------------------
(* Exact arithmetic *)

Abs(x) == IF x < 0 THEN -x ELSE x
Max(a, b) == IF a >= b THEN a ELSE b
Min(a, b) == IF a <= b THEN a ELSE b

RECURSIVE GCD(_, _)
GCD(a, b) == IF b = 0 THEN a ELSE GCD(b, a % b)

Rat(n, d) ==
    LET s == IF d < 0 THEN -1 ELSE 1
        g == GCD(Abs(n), Abs(d))
    IN  <<(s * n) \div g, (s * d) \div g>>

R(i) == <<i, 1>>
RAdd(p, q) == Rat(p[1] * q[2] + q[1] * p[2], p[2] * q[2])
RSub(p, q) == Rat(p[1] * q[2] - q[1] * p[2], p[2] * q[2])
RMul(p, q) == Rat(p[1] * q[1], p[2] * q[2])
RDiv(p, q) == Rat(p[1] * q[2], p[2] * q[1])

-----------------------------------------------------------------------------
(* Python / numpy primitives *)

\* list[a:b] with Python's treatment of negative and out-of-range bounds
PyIndex(len, k) == IF k < 0 THEN Max(len + k, 0) ELSE Min(k, len)
Slice(s, a, b) ==
    LET lo == PyIndex(Len(s), a)
        hi == PyIndex(Len(s), b)
    IN  IF lo < hi THEN SubSeq(s, lo + 1, hi) ELSE <<>>

\* np.arange(a, b): a, a+1, ..., b-1 (empty when b <= a)
arange(a, b) == [k \in 1..Max(b - a, 0) |-> a + k - 1]

\* a variant of interp that holds the left value instead of interpolating
interp_hold(x, x0, x1, f0, f1) == f0

\* np.interp(x, [x0, x1], [f0, f1]) for x0 < x < x1
interp(x, x0, x1, f0, f1) ==
    RAdd(f0, RMul(RSub(f1, f0), Rat(x - x0, x1 - x0)))

\* [0]*n
ZeroRow(n) == [d \in 1..n |-> R(0)]
\* [row]*num
Repeat(row, num) == [k \in 1..Max(num, 0) |-> row]


-----------------------------------------------------------------------------
(* NeighbourAgentBuffer *)

Ids == {1, 2}                       \* agent identities passed as ids
NoBuffer == [k \in {} |-> 0]        \* dict()
EmptyRecord == [values |-> <<>>, timesteps |-> <<>>]

\* state vectors passed to add in Spec: agent 1 moves between two states,
\* agent 2 stands still
Values(ids) ==
    IF ids = 1 THEN {<<R(0), R(6)>>, <<R(6), R(3)>>} ELSE {<<R(2), R(2)>>}

\* the state vector the agent ids shows at timestep t (SpecQ, SpecFut):
\* every observation is different and none is the zero vector
Obs(ids, t) == <<R(t + 1), R(10 * ids - t)>>

\* entries of one state vector: fp.shape[1], state_shape[2]
FeatureDim == Len(Obs(1, 0))

LastOf(s) == s[Len(s)]

\* self.buffer[ids] after the "if ids not in self.buffer" block
Lookup(buf, ids) == IF ids \in DOMAIN buf THEN buf[ids] ELSE EmptyRecord

Put(buf, ids, rec) ==
    [k \in DOMAIN buf \cup {ids} |-> IF k = ids THEN rec ELSE buf[k]]

\* the record after the gap-fill loop: one interpolated row for every
\* element of id_arr[1:-1]
GapFill(rec, values, timesteps) ==
    LET id_arr == arange(LastOf(rec.timesteps), timesteps + 1)
        inner  == Slice(id_arr, 1, -1)
        fp0    == LastOf(rec.values)
        row(t) == [i \in 1..Len(values) |->
                      interp(t, id_arr[1], LastOf(id_arr), fp0[i], values[i])]
    IN  [values    |-> rec.values \o [k \in 1..Len(inner) |-> row(inner[k])],
         timesteps |-> rec.timesteps \o inner]

\* a variant of add without the assertion after the gap-fill
add_noassert(buf, ids, values, timesteps) ==
    LET rec    == Lookup(buf, ids)
        gap    == Len(rec.timesteps) > 0
                  /\ timesteps > LastOf(rec.timesteps) + 1
        filled == IF gap THEN GapFill(rec, values, timesteps) ELSE rec
    IN  [status |-> "ok",
         buffer |-> Put(buf, ids,
             [values    |-> Append(filled.values, values),
              timesteps |-> Append(filled.timesteps, timesteps)])]

\* a variant of add that drops a stale sample without failing
add_silent(buf, ids, values, timesteps) ==
    LET rec  == Lookup(buf, ids)
        gap  == Len(rec.timesteps) > 0
                /\ timesteps # LastOf(rec.timesteps) + 1
    IN  IF gap /\ timesteps <= LastOf(rec.timesteps)
        THEN [status |-> "ok", buffer |-> buf]
        ELSE LET filled == IF gap THEN GapFill(rec, values, timesteps)
                           ELSE rec
             IN  [status |-> "ok",
                  buffer |-> Put(buf, ids,
                      [values    |-> Append(filled.values, values),
                       timesteps |-> Append(filled.timesteps, timesteps)])]

\* add(ids, values, timesteps) on the dictionary buf: the outcome of the call
\* and the dictionary it leaves behind
add(buf, ids, values, timesteps) ==
    LET rec      == Lookup(buf, ids)
        nonempty == Len(rec.timesteps) > 0
        gap      == nonempty /\ timesteps # LastOf(rec.timesteps) + 1
    IN  IF gap /\ timesteps + 1 <= LastOf(rec.timesteps)
        THEN \* id_arr is empty: id_arr[0] raises
             [status |-> "IndexError", buffer |-> Put(buf, ids, rec)]
        ELSE LET filled == IF gap THEN GapFill(rec, values, timesteps) ELSE rec
             IN  IF nonempty /\ timesteps # LastOf(filled.timesteps) + 1
                 THEN [status |-> "AssertionError",
                       buffer |-> Put(buf, ids, filled)]
                 ELSE [status |-> "ok",
                       buffer |-> Put(buf, ids,
                           [values    |-> Append(filled.values, values),
                            timesteps |-> Append(filled.timesteps, timesteps)])]

RowsOf(buf, ids) == Len(Lookup(buf, ids).timesteps)

RECURSIVE SumRows(_, _)
SumRows(buf, S) ==
    IF S = {} THEN 0
    ELSE LET k == CHOOSE x \in S : TRUE
         IN  Len(buf[k].timesteps) + SumRows(buf, S \ {k})
TotalRows(buf) == SumRows(buf, DOMAIN buf)

AddCall(ids, values, timesteps) ==
    LET r == add(buffer, ids, values, timesteps)
    IN  /\ buffer' = r.buffer
        /\ last' = [op |-> "add", ids |-> ids, values |-> values,
                    timesteps |-> timesteps, status |-> r.status,
                    grew |-> RowsOf(r.buffer, ids) - RowsOf(buffer, ids)]
        /\ UNCHANGED <<hist_length, future_length, query_mode, state_shape,
                       rsVars, splitVars>>

Add ==
    \E ids \in Ids, timesteps \in 0..MaxT : \E values \in Values(ids) :
        /\ TotalRows(add(buffer, ids, values, timesteps).buffer) <= MaxRows
        /\ AddCall(ids, values, timesteps)

clear ==
    /\ buffer' = NoBuffer
    /\ last' = [op |-> "clear", status |-> "ok"]
    /\ UNCHANGED <<hist_length, future_length, query_mode, state_shape,
                   rsVars, splitVars>>

-----------------------------------------------------------------------------
(* NeighbourAgentBuffer: the queries *)

\* np.array(..., dtype=np.float32) on one number: the nearest number with a
\* 24 bit mantissa, ties to even (exponent range not modelled)
RECURSIVE Pow2(_)
Pow2(e) == IF e = 0 THEN 1 ELSE 2 * Pow2(e - 1)

RECURSIVE ScaleUp(_, _, _)
\* the least e >= 0 with a * 2^e >= d * 2^23
ScaleUp(a, d, e) ==
    IF a * Pow2(e) >= d * Pow2(23) THEN e ELSE ScaleUp(a, d, e + 1)

RECURSIVE ScaleDown(_, _, _)
\* the least e >= 0 with a < d * 2^e * 2^24
ScaleDown(a, d, e) ==
    IF a < d * Pow2(e) * Pow2(24) THEN e ELSE ScaleDown(a, d, e + 1)

RoundHalfEven(a, d) ==
    LET q == a \div d
        r == a % d
    IN  IF 2 * r > d \/ (2 * r = d /\ q % 2 = 1) THEN q + 1 ELSE q

float32(x) ==
    LET a == Abs(x[1])
        d == x[2]
        s == IF x[1] < 0 THEN -1 ELSE 1
    IN  IF d = 1 /\ a <= 16777216 THEN x    \* an integer of 24 bits is exact
        ELSE IF a < d * Pow2(24)
        THEN LET e == ScaleUp(a, d, 0)
             IN  Rat(s * RoundHalfEven(a * Pow2(e), d), Pow2(e))
        ELSE LET e == ScaleDown(a, d, 0)
             IN  R(s * RoundHalfEven(a, d * Pow2(e)) * Pow2(e))

\* np.clip(x, lo, hi)
clip(x, lo, hi) == Min(Max(x, lo), hi)

\* np.zeros((rows, cols))
zeros(rows, cols) == Repeat(ZeroRow(cols), rows)

\* a variant of Window that counts the history without the current step
Window_short(rec, curr_timestep) ==
    LET hist_t == curr_timestep - rec.timesteps[1]
        fut_t  == LastOf(rec.timesteps) - curr_timestep
    IN  [hist_t |-> hist_t,
         fut_t  |-> fut_t,
         n      |-> Max(hist_t - hist_length, 0),
         l      |-> Min(hist_t, hist_length),
         f      |-> Min(fut_t, future_length)]

\* hist_t, fut_t, n, l, f of a candidate record at curr_timestep
Window(rec, curr_timestep) ==
    LET hist_t == curr_timestep - rec.timesteps[1] + 1
        fut_t  == LastOf(rec.timesteps) - curr_timestep
    IN  [hist_t |-> hist_t,
         fut_t  |-> fut_t,
         n      |-> Max(hist_t - hist_length, 0),
         l      |-> Min(hist_t, hist_length),
         f      |-> Min(fut_t, future_length)]

\* pad_fut(line, pad_length): np.array(line) has two dimensions only if line
\* holds at least one row
pad_fut(line, pad_length) ==
    IF Len(line) = 0
    THEN [status |-> "AssertionError", val |-> <<>>]
    ELSE LET num == pad_length - Min(pad_length, Len(line))
         IN  [status |-> "ok",
              val    |-> line \o Repeat(ZeroRow(Len(LastOf(line))), num)]

\* a variant of pad_hist that pads on the right and one row short
pad_hist_short(line, pad_length) ==
    IF Len(line) = 0
    THEN [status |-> "AssertionError", val |-> <<>>]
    ELSE LET num == pad_length - Min(pad_length, Len(line)) - 1
         IN  [status |-> "ok",
              val    |-> line \o Repeat(ZeroRow(Len(line[1])), num)]

\* pad_hist(line, pad_length)
pad_hist(line, pad_length) ==
    IF Len(line) = 0
    THEN [status |-> "AssertionError", val |-> <<>>]
    ELSE LET num == pad_length - Min(pad_length, Len(line))
         IN  [status |-> "ok",
              val    |-> Repeat(ZeroRow(Len(line[1])), num) \o line]

\* the loop of query_futures from position k of curr_ids on, neighbor_val
\* being what the earlier positions appended
RECURSIVE FuturesLoop(_, _, _, _, _)
FuturesLoop(curr_timestep, curr_ids, pad_length, k, neighbor_val) ==
    IF k > Len(curr_ids)
    THEN [status |-> "ok", val |-> neighbor_val]
    ELSE IF curr_ids[k] \notin DOMAIN buffer
    THEN [status |-> "KeyError", val |-> <<>>]
    ELSE LET candidate_neighbor == buffer[curr_ids[k]]
             w   == Window(candidate_neighbor, curr_timestep)
             fut == pad_fut(Slice(candidate_neighbor.values,
                                  w.n + w.l, w.n + w.l + w.f), pad_length)
         IN  IF fut.status # "ok"
             THEN [status |-> fut.status, val |-> <<>>]
             ELSE FuturesLoop(curr_timestep, curr_ids, pad_length, k + 1,
                              Append(neighbor_val, fut.val))

\* np.array(neighbor, dtype=np.float32): the blocks must have one length
ToFloat32Array(neighbor) ==
    IF \E a, b \in 1..Len(neighbor) : Len(neighbor[a]) # Len(neighbor[b])
    THEN [status |-> "ValueError", val |-> <<>>]
    ELSE [status |-> "ok",
          val    |-> [a \in 1..Len(neighbor) |->
                        [r \in 1..Len(neighbor[a]) |->
                            [i \in 1..Len(neighbor[a][r]) |->
                                float32(neighbor[a][r][i])]]]]

query_futures(curr_timestep, curr_ids, pad_length) ==
    LET loop == FuturesLoop(curr_timestep, curr_ids, pad_length, 1, <<>>)
    IN  IF loop.status # "ok" THEN loop ELSE ToFloat32Array(loop.val)

\* the loop of query_neighbours from position k of zip(curr_ids, curr_ind)
\* on; acc holds neighbor_val, buf_ind and i, and taken, the positions whose
\* window was appended to neighbor_val
RECURSIVE NeighboursLoop(_, _, _, _, _, _, _)
NeighboursLoop(curr_timestep, curr_ids, curr_ind, keep_top, pad_length, k, acc) ==
    IF k > Min(Len(curr_ids), Len(curr_ind))
    THEN [status |-> "ok", acc |-> acc]
    ELSE IF curr_ids[k] \notin DOMAIN buffer
    THEN [status |-> "KeyError", acc |-> acc]
    ELSE LET candidate_neighbor == buffer[curr_ids[k]]
             values == candidate_neighbor.values
             w      == Window(candidate_neighbor, curr_timestep)
             skip   == NeighboursLoop(curr_timestep, curr_ids, curr_ind,
                                      keep_top, pad_length, k + 1, acc)
             after(acc2) ==
                 IF acc2.i >= keep_top
                 THEN [status |-> "ok", acc |-> acc2]
                 ELSE NeighboursLoop(curr_timestep, curr_ids, curr_ind,
                                     keep_top, pad_length, k + 1, acc2)
         IN  IF query_mode = "history_only"
             THEN IF w.hist_t <= 0 THEN skip
                  ELSE LET val == pad_hist(Slice(values, w.n, w.n + w.l),
                                           pad_length)
                       IN  IF val.status # "ok"
                           THEN [status |-> val.status, acc |-> acc]
                           ELSE after(
                               [neighbor_val |-> Append(acc.neighbor_val, val.val),
                                buf_ind      |-> Append(acc.buf_ind, curr_ind[k]),
                                i            |-> acc.i + 1,
                                taken        |-> Append(acc.taken, k)])
             ELSE IF query_mode = "full_future"
             THEN IF w.fut_t < future_length THEN skip
                  ELSE LET hist == pad_hist(Slice(values, w.n, w.n + w.l),
                                            pad_length)
                           fut  == Slice(values, w.n + w.l, w.n + w.l + w.f)
                       IN  IF hist.status # "ok"
                           THEN [status |-> hist.status, acc |-> acc]
                           ELSE after(
                               [neighbor_val |-> Append(acc.neighbor_val,
                                                        hist.val \o fut),
                                buf_ind      |-> acc.buf_ind,
                                i            |-> acc.i + 1,
                                taken        |-> Append(acc.taken, k)])
             ELSE [status |-> "NotImplementedError", acc |-> acc]

query_neighbours(curr_timestep, curr_ids, curr_ind, keep_top, pad_length) ==
    LET loop == NeighboursLoop(curr_timestep, curr_ids, curr_ind, keep_top,
                    pad_length, 1,
                    [neighbor_val |-> <<>>, buf_ind |-> <<>>, i |-> 0,
                     taken |-> <<>>])
        neighbor_val == loop.acc.neighbor_val
        pad_num == keep_top - Min(Len(neighbor_val), keep_top)
        pad_val == zeros(clip(curr_timestep + 1, 0, state_shape[2]),
                         state_shape[3])
    IN  IF loop.status # "ok"
        THEN [status |-> loop.status, neighbor |-> <<>>, buf_ind |-> <<>>,
              taken |-> <<>>]
        ELSE [status   |-> "ok",
              neighbor |-> neighbor_val \o Repeat(pad_val, pad_num),
              buf_ind  |-> loop.acc.buf_ind,
              taken    |-> loop.acc.taken]

\* A query leaves the store as it is, so a query made right after another
\* one reaches no store and no result that the first could not reach: the
\* queries are made on the store as the last add or clear left it.
AfterUpdate == last.op \in {"init", "add", "clear"}

QueryFuturesCall(curr_timestep, curr_ids, pad_length) ==
    LET r == query_futures(curr_timestep, curr_ids, pad_length)
    IN  /\ AfterUpdate
        /\ last' = [op |-> "query_futures", curr_timestep |-> curr_timestep,
                    curr_ids |-> curr_ids, pad_length |-> pad_length,
                    status |-> r.status, val |-> r.val]
        /\ UNCHANGED <<storeVars, rsVars, splitVars>>

QueryNeighboursCall(curr_timestep, curr_ids, curr_ind, keep_top, pad_length) ==
    LET r == query_neighbours(curr_timestep, curr_ids, curr_ind, keep_top,
                              pad_length)
    IN  /\ AfterUpdate
        /\ last' = [op |-> "query_neighbours",
                    curr_timestep |-> curr_timestep, curr_ids |-> curr_ids,
                    curr_ind |-> curr_ind, keep_top |-> keep_top,
                    pad_length |-> pad_length, status |-> r.status,
                    neighbor |-> r.neighbor, buf_ind |-> r.buf_ind,
                    taken |-> r.taken]
        /\ UNCHANGED <<storeVars, rsVars, splitVars>>

-----------------------------------------------------------------------------
(* Idle values of the parts a specification does not exercise *)

StoreIdle ==
    /\ buffer = NoBuffer
    /\ hist_length = 5
    /\ future_length = 5
    /\ query_mode = "full_future"
    /\ state_shape = <<1, 10, FeatureDim>>

RSIdle == rs_n = 0 /\ rs_M = R(0) /\ rs_S = R(0)

SplitIdle ==
    /\ egos = <<>>
    /\ future_steps = 0
    /\ split_i = 0
    /\ res = <<>>
    /\ masks = <<>>

NoCall == [op |-> "init", status |-> "ok"]

-----------------------------------------------------------------------------
(* Spec: one store, built with the default arguments, fed by add and clear *)

Init ==
    /\ StoreIdle
    /\ last = NoCall
    /\ RSIdle
    /\ SplitIdle

Next == Add \/ clear

Spec == Init /\ [][Next]_vars

-----------------------------------------------------------------------------
(* SpecQ: a store with short windows, in each query mode, fed the            *)
(* observations of two agents and queried                                    *)

\* the constructor arguments of the stores of SpecQ
QueryConfigs ==
    {[hist_length |-> 2, future_length |-> 2, state_shape |-> <<1, 3, FeatureDim>>]}
QueryModes == {"full_future", "default", "history_only"}

\* arguments of the queries
IdLists    == {<<>>, <<1>>, <<2>>, <<1, 2>>, <<2, 1>>}
IndexOf(curr_ids) == SubSeq(<<7, 9>>, 1, Len(curr_ids))
KeepTops   == 0..2
PadLengths == {1, 3}

InitQ ==
    /\ buffer = NoBuffer
    /\ \E c \in QueryConfigs :
          /\ hist_length = c.hist_length
          /\ future_length = c.future_length
          /\ state_shape = c.state_shape
    /\ query_mode \in QueryModes
    /\ last = NoCall
    /\ RSIdle
    /\ SplitIdle

AddQ ==
    \E ids \in Ids, timesteps \in 0..MaxTQ :
        AddCall(ids, Obs(ids, timesteps), timesteps)

QueryFuturesQ ==
    \E curr_timestep \in (-1)..(MaxTQ + 1), curr_ids \in IdLists,
       pad_length \in PadLengths :
        QueryFuturesCall(curr_timestep, curr_ids, pad_length)

QueryNeighboursQ ==
    \E curr_timestep \in (-1)..(MaxTQ + 1), curr_ids \in IdLists,
       keep_top \in KeepTops, pad_length \in PadLengths :
        QueryNeighboursCall(curr_timestep, curr_ids, IndexOf(curr_ids),
                            keep_top, pad_length)

NextQ == AddQ \/ clear \/ QueryFuturesQ \/ QueryNeighboursQ

SpecQ == InitQ /\ [][NextQ]_vars

-----------------------------------------------------------------------------
(* SpecFut: a store built with the default arguments, fed the observations  *)
(* of agent 1 and of agent 2, who enters the scene at the last step but one, *)
(* and asked for futures                                                     *)

IdListsF    == {<<>>, <<1>>, <<1, 2>>, <<2, 1>>}
PadLengthsF == {5, 10}
EnterF(ids) == IF ids = 1 THEN 0 ELSE MaxTF - 1

AddF ==
    \E ids \in Ids : \E timesteps \in EnterF(ids)..MaxTF :
        AddCall(ids, Obs(ids, timesteps), timesteps)

QueryFuturesF ==
    \E curr_timestep \in (-1)..(MaxTF + 1), curr_ids \in IdListsF,
       pad_length \in PadLengthsF :
        QueryFuturesCall(curr_timestep, curr_ids, pad_length)

NextF == AddF \/ clear \/ QueryFuturesF

SpecFut == Init /\ [][NextF]_vars

-----------------------------------------------------------------------------
(* RunningStat, shape (), and SpecRS: one estimator fed samples              *)

Samples == {R(x) : x \in (-2)..2}

\* a variant of push that takes both deviations from the old mean
push_oldmean(n, M, S, x) ==
    IF n + 1 = 1
    THEN [n |-> n + 1, M |-> x, S |-> S]
    ELSE LET oldM == M
             newM == RAdd(oldM, RDiv(RSub(x, oldM), R(n + 1)))
         IN  [n |-> n + 1, M |-> newM,
              S |-> RAdd(S, RMul(RSub(x, oldM), RSub(x, oldM)))]

\* push(x) on an estimator holding _n = n, _M = M, _S = S
push(n, M, S, x) ==
    IF n + 1 = 1
    THEN [n |-> n + 1, M |-> x, S |-> S]
    ELSE LET oldM == M
             newM == RAdd(oldM, RDiv(RSub(x, oldM), R(n + 1)))
         IN  [n |-> n + 1, M |-> newM,
              S |-> RAdd(S, RMul(RSub(x, oldM), RSub(x, newM)))]

\* the properties mean and var
mean(M) == M
var(n, M, S) == IF n > 1 THEN RDiv(S, R(n - 1)) ELSE RMul(M, M)

Push ==
    \E x \in Samples :
        LET r == push(rs_n, rs_M, rs_S, x)
        IN  /\ rs_n < MaxPush
            /\ rs_n' = r.n
            /\ rs_M' = r.M
            /\ rs_S' = r.S
            /\ last' = [op |-> "push", x |-> x, status |-> "ok"]
            /\ UNCHANGED <<storeVars, splitVars>>

\* RunningStat(shape): a fresh estimator replaces the one in use
NewRunningStat ==
    /\ rs_n' = 0
    /\ rs_M' = R(0)
    /\ rs_S' = R(0)
    /\ last' = [op |-> "RunningStat", status |-> "ok"]
    /\ UNCHANGED <<storeVars, splitVars>>

NextRS == Push \/ NewRunningStat

SpecRS == Init /\ [][NextRS]_vars

-----------------------------------------------------------------------------
(* split_future, and SpecSplit: one call of it, one loop iteration a step    *)

\* the sequences given as egos: n rows, none of them zero
Egos(n, off) == [k \in 1..n |-> <<R(k + off), R(2 * k)>>]

\* a variant of SplitMask that marks every position valid
SplitMask_ones(line_rows, steps) == [r \in 1..steps |-> 1]

\* mask = [1]*line.shape[0] + [0]*(future_steps-line.shape[0])
SplitMask(line_rows, steps) ==
    Repeat(1, line_rows) \o Repeat(0, steps - line_rows)

\* line after the zero rows are concatenated
SplitLine(line, steps) ==
    IF Len(line) < steps
    THEN line \o zeros(steps - Len(line), FeatureDim)
    ELSE line

InitSplit ==
    /\ StoreIdle
    /\ RSIdle
    /\ \E n \in 0..MaxN, off \in {0, 5} : egos = Egos(n, off)
    /\ future_steps \in 0..MaxW
    /\ split_i = 0
    /\ res = <<>>
    /\ masks = <<>>
    /\ last = [op |-> "split_future", status |-> "running"]

SplitIterate ==
    /\ last.status = "running"
    /\ split_i < Len(egos)
    /\ LET line == Slice(egos, split_i, split_i + future_steps)
       IN  /\ res' = Append(res, SplitLine(line, future_steps))
           /\ masks' = Append(masks, SplitMask(Len(line), future_steps))
    /\ split_i' = split_i + 1
    /\ UNCHANGED <<egos, future_steps, last, storeVars, rsVars>>

SplitReturn ==
    /\ last.status = "running"
    /\ split_i = Len(egos)
    /\ last' = [op |-> "split_future", status |-> "ok"]
    /\ UNCHANGED <<splitVars, storeVars, rsVars>>

NextSplit == SplitIterate \/ SplitReturn

SpecSplit == InitSplit /\ [][NextSplit]_vars

-----------------------------------------------------------------------------
(* Claims about add and clear, checked under Spec *)

Contiguous(rec) ==
    /\ Len(rec.values) = Len(rec.timesteps)
    /\ \A k \in 1..(Len(rec.timesteps) - 1) :
           rec.timesteps[k + 1] = rec.timesteps[k] + 1

\* C1: after any sequence of add and clear calls, failed adds included, every
\* agent record has as many values as timesteps, and every stored timestep is
\* the one before it plus exactly 1.
C1_TimestepsContiguous == \A ids \in DOMAIN buffer : Contiguous(buffer[ids])

\* C1 witness: an add has just failed on a store that holds an interpolated
\* row (a value that was never passed to add), so a gap was filled before.
C1_Witness ==
    /\ last.op = "add"
    /\ last.status # "ok"
    /\ \E k \in 1..RowsOf(buffer, 1) : buffer[1].values[k] \notin Values(1)

\* the step is the call add(ids, ., t) made on a non-empty record of ids
AddStepOn(ids, t) ==
    /\ last'.op = "add"
    /\ last'.ids = ids
    /\ last'.timesteps = t
    /\ ids \in DOMAIN buffer
    /\ Len(buffer[ids].timesteps) > 0

\* C2: an add on a non-empty record with timestep <= lastTimestep fails, and
\* leaves the values and timesteps of the record (and of every other record)
\* exactly as they were.
C2_StaleAddFailsUnchanged ==
    [][\A ids \in Ids, t \in 0..(MaxT + 1) :
          (AddStepOn(ids, t) /\ t <= LastOf(buffer[ids].timesteps))
              => (last'.status # "ok" /\ buffer' = buffer)]_vars

\* C2 witness: an add whose timestep is below the last stored one has failed
\* on a record of two rows or more.
C2_Witness ==
    /\ last.op = "add"
    /\ last.status = "IndexError"
    /\ last.timesteps < LastOf(buffer[last.ids].timesteps)
    /\ RowsOf(buffer, last.ids) >= 2

\* v lies on the straight line from (t0, v0) to (t1, v1) at time t
OnLine(t, v, t0, v0, t1, v1) ==
    RMul(RSub(v, v0), R(t1 - t0)) = RMul(RSub(v1, v0), R(t - t0))

\* C3: an add on a non-empty record with timestep > lastTimestep + 1 keeps
\* the stored rows, then appends one row for every missing timestep in
\* increasing order, each entry of it on the straight line between the last
\* stored value and the incoming value, and then the incoming sample.
C3_GapFilledOnLine ==
    [][\A ids \in Ids, t1 \in 0..(MaxT + 1) :
          (AddStepOn(ids, t1) /\ t1 > LastOf(buffer[ids].timesteps) + 1)
              => LET old == buffer[ids]
                     n   == Len(old.timesteps)
                     t0  == old.timesteps[n]
                     v0  == old.values[n]
                     v1  == last'.values
                     new == buffer'[ids]
                 IN  /\ last'.status = "ok"
                     /\ Len(new.timesteps) = n + (t1 - t0)
                     /\ Len(new.values) = n + (t1 - t0)
                     /\ SubSeq(new.timesteps, 1, n) = old.timesteps
                     /\ SubSeq(new.values, 1, n) = old.values
                     /\ \A k \in 1..(t1 - t0) : new.timesteps[n + k] = t0 + k
                     /\ new.values[n + (t1 - t0)] = v1
                     /\ \A k \in 1..(t1 - t0 - 1), i \in 1..FeatureDim :
                            OnLine(t0 + k, new.values[n + k][i],
                                   t0, v0[i], t1, v1[i])]_vars

\* C3 witness: timesteps 0, 1, 2 were stored and the add of timestep 5 has
\* filled 3 and 4 with values different from both ends.
C3_Witness ==
    /\ last.op = "add"
    /\ last.status = "ok"
    /\ last.timesteps = 5
    /\ last.grew = 3
    /\ buffer[last.ids].timesteps = <<0, 1, 2, 3, 4, 5>>
    /\ buffer[last.ids].values[4] # buffer[last.ids].values[3]
    /\ buffer[last.ids].values[4] # buffer[last.ids].values[6]
    /\ buffer[last.ids].values[5] # buffer[last.ids].values[4]

-----------------------------------------------------------------------------
(* Claims about query_neighbours and the shapes, checked under SpecQ *)

NbReturned == last.op = "query_neighbours" /\ last.status = "ok"
FutReturned == last.op = "query_futures" /\ last.status = "ok"

\* every id of the list has a record in the store
AllKnown(curr_ids) == \A k \in 1..Len(curr_ids) : curr_ids[k] \in DOMAIN buffer

\* lastTimestep - currTimestep of the candidate at position k of the call
FutSpan(k) == LastOf(buffer[last.curr_ids[k]].timesteps) - last.curr_timestep
\* currTimestep - firstTimestep + 1 of the candidate at position k
HistSpan(k) == last.curr_timestep - buffer[last.curr_ids[k]].timesteps[1] + 1

\* the positions of s at which P holds, in increasing order
RECURSIVE Positions(_, _, _)
Positions(n, P(_), k) ==
    IF k > n THEN <<>>
    ELSE (IF P(k) THEN <<k>> ELSE <<>>) \o Positions(n, P, k + 1)

Prefix(s, n) == SubSeq(s, 1, Min(n, Len(s)))

IsZeroBlock(b, rows, cols) ==
    /\ Len(b) = rows
    /\ \A r \in 1..Len(b) : b[r] = [i \in 1..cols |-> R(0)]

\* C5: in full_future mode a returned window never comes from a candidate
\* whose recorded future is shorter than future_length; the accepted
\* candidates are the first eligible ones in input order, never more than
\* keep_top of them; the returned list has exactly keep_top entries, those
\* after the accepted windows being zero blocks of
\* clip(curr_timestep+1, 0, state_shape[1]) rows and state_shape[2] columns.
C5_FullFutureCappedAtKeepTop ==
    (NbReturned /\ query_mode = "full_future") =>
        LET Eligible(k) == /\ last.curr_ids[k] \in DOMAIN buffer
                           /\ FutSpan(k) >= future_length
            eligible == Positions(Len(last.curr_ids), Eligible, 1)
        IN  /\ \A j \in 1..Len(last.taken) : Eligible(last.taken[j])
            /\ last.taken = Prefix(eligible, Len(last.taken))
            /\ Len(last.taken) <= last.keep_top
            /\ Len(last.neighbor) = last.keep_top
            /\ \A j \in (Len(last.taken) + 1)..Len(last.neighbor) :
                   IsZeroBlock(last.neighbor[j],
                               clip(last.curr_timestep + 1, 0, state_shape[2]),
                               state_shape[3])

\* C6: with query_mode 'default', every call of query_neighbours on
\* candidates the store knows, of any number, fails with NotImplementedError.
C6_DefaultModeAlwaysFails ==
    (last.op = "query_neighbours" /\ query_mode = "default"
        /\ AllKnown(last.curr_ids))
        => last.status = "NotImplementedError"

\* C7: in history_only and in full_future mode alike, the second component
\* returned by query_neighbours holds the external index of every accepted
\* candidate, in acceptance order (stated for keep_top >= 1, where no more
\* than keep_top candidates are accepted).
C7_KeptIndicesOfAccepted ==
    (NbReturned /\ query_mode \in {"history_only", "full_future"}
        /\ last.keep_top >= 1) =>
        last.buf_ind = [j \in 1..Len(last.taken) |-> last.curr_ind[last.taken[j]]]

HasShape(b, rows, cols) ==
    /\ Len(b) = rows
    /\ \A r \in 1..Len(b) : Len(b[r]) = cols

-----------------------------------------------------------------------------
(* Claim about query_futures, checked under SpecFut *)

\* the value stored for timestep t, <<>> if the record holds none
StoredAt(rec, t) ==
    IF \E k \in 1..Len(rec.timesteps) : rec.timesteps[k] = t
    THEN rec.values[CHOOSE k \in 1..Len(rec.timesteps) : rec.timesteps[k] = t]
    ELSE <<>>

AsFloat32(row) == [i \in 1..Len(row) |-> float32(row[i])]

\* the f stored values after curr_timestep, then zero rows up to pad_length
ExpectedFuture(rec, curr_timestep, pad_length) ==
    LET f == Max(Min(LastOf(rec.timesteps) - curr_timestep, future_length), 0)
    IN  [j \in 1..f |-> AsFloat32(StoredAt(rec, curr_timestep + j))]
        \o [j \in 1..(pad_length - Min(pad_length, f)) |->
               [i \in 1..FeatureDim |-> R(0)]]

\* C4 as stated: for every id with a record, query_futures returns the
\* stored values of the timesteps curr_timestep+1 .. curr_timestep+f in
\* order, followed by zero rows up to pad_length.
C4_FuturesForEveryRecord ==
    (last.op = "query_futures" /\ AllKnown(last.curr_ids)) =>
        /\ last.status = "ok"
        /\ Len(last.val) = Len(last.curr_ids)
        /\ \A k \in 1..Len(last.curr_ids) :
               last.val[k] = ExpectedFuture(buffer[last.curr_ids[k]],
                                 last.curr_timestep, last.pad_length)

\* C4 amended: when every id's record holds curr_timestep+1 (that is
\* firstTimestep - 1 <= curr_timestep < lastTimestep) and pad_length >=
\* future_length, query_futures returns for every id the stored values of
\* curr_timestep+1 .. curr_timestep+f in order (as float32), followed by
\* zero rows up to pad_length; when some id's record ends at or before
\* curr_timestep the call fails with the rank assertion. With the default
\* lengths 5 and 5, pad_length 10 and a record of 0..12 queried at 10, the
\* block is the rows of 11 and 12 followed by 8 zero rows.
C4_FuturesWhenRecorded ==
    (last.op = "query_futures" /\ AllKnown(last.curr_ids)) =>
        /\ ((\A k \in 1..Len(last.curr_ids) :
                 HistSpan(k) >= 0 /\ FutSpan(k) >= 1)
             /\ last.pad_length >= future_length)
            => /\ last.status = "ok"
               /\ Len(last.val) = Len(last.curr_ids)
               /\ \A k \in 1..Len(last.curr_ids) :
                      last.val[k] = ExpectedFuture(buffer[last.curr_ids[k]],
                                        last.curr_timestep, last.pad_length)
        /\ (\E k \in 1..Len(last.curr_ids) : FutSpan(k) <= 0)
            => last.status = "AssertionError"
        /\ (/\ hist_length = 5 /\ future_length = 5 /\ last.pad_length = 10
            /\ last.curr_timestep = 10
            /\ \A k \in 1..Len(last.curr_ids) :
                   buffer[last.curr_ids[k]].timesteps[1] <= 11
                   /\ LastOf(buffer[last.curr_ids[k]].timesteps) = 12)
            => /\ last.status = "ok"
               /\ \A k \in 1..Len(last.curr_ids) :
                      LET rec == buffer[last.curr_ids[k]]
                          at(t) == rec.values[t - rec.timesteps[1] + 1]
                      IN  /\ Len(last.val[k]) = 10
                          /\ last.val[k][1] = at(11)
                          /\ last.val[k][2] = at(12)
                          /\ \A r \in 3..10 :
                                 last.val[k][r] = <<R(0), R(0)>>

\* C4 witness: the record of agent 1 spans 0..12 and that of agent 2 11..12,
\* the store has the default lengths, and query_futures at 10 with
\* pad_length 10 has returned two real rows and zero rows for each.
C4_Witness ==
    /\ last.op = "query_futures"
    /\ last.status = "ok"
    /\ last.curr_timestep = 10
    /\ last.pad_length = 10
    /\ last.curr_ids = <<2, 1>>
    /\ hist_length = 5
    /\ future_length = 5
    /\ buffer[1].timesteps = <<0, 1, 2, 3, 4, 5, 6, 7, 8, 9, 10, 11, 12>>
    /\ buffer[2].timesteps = <<11, 12>>
    /\ last.val[1][2] = buffer[2].values[2]
    /\ last.val[2][2] = buffer[1].values[13]
    /\ last.val[2][3] = <<R(0), R(0)>>

-----------------------------------------------------------------------------
(* Claim about RunningStat, checked under SpecRS *)

FirstPush  == last'.op = "push" /\ rs_n = 0 /\ rs_n' = 1
\* the second push, of a sample other than the first (which is the mean)
SecondPush == last'.op = "push" /\ rs_n = 1 /\ rs_n' = 2 /\ last'.x # rs_M

\* C9 as stated: after the first push mean is x0; after the push of a second,
\* distinct sample x1 var is nonzero and equals (x0 - mean) * (x1 - mean_after),
\* mean being the mean before the second push or, read the other way, after it.
C9_VarIsX0DeviationProduct ==
    [][/\ FirstPush => mean(rs_M') = last'.x
       /\ SecondPush =>
            LET x0  == rs_M
                x1  == last'.x
                v   == var(rs_n', rs_M', rs_S')
            IN  /\ v # R(0)
                /\ \/ v = RMul(RSub(x0, mean(rs_M)), RSub(x1, mean(rs_M')))
                   \/ v = RMul(RSub(x0, mean(rs_M')), RSub(x1, mean(rs_M')))]_vars

\* C9 amended: after the first push mean is x0 exactly; after the push of a
\* second, distinct sample x1 var is nonzero and equals
\* (x1 - x0) * (x1 - mean_after).
C9_VarIsX1DeviationProduct ==
    [][/\ FirstPush => mean(rs_M') = last'.x
       /\ SecondPush =>
            LET x0  == rs_M
                x1  == last'.x
                v   == var(rs_n', rs_M', rs_S')
            IN  /\ v # R(0)
                /\ v = RMul(RSub(x1, x0), RSub(x1, mean(rs_M')))]_vars

\* C9 witness: two distinct samples were pushed on a fresh estimator.
C9_Witness ==
    /\ last.op = "push"
    /\ rs_n = 2
    /\ last.x # rs_M
    /\ var(rs_n, rs_M, rs_S) # R(0)

-----------------------------------------------------------------------------
(* Claim about split_future, checked under SpecSplit *)

RECURSIVE SumSeq(_)
SumSeq(s) == IF Len(s) = 0 THEN 0 ELSE s[1] + SumSeq(Tail(s))

\* C10: split_future on N rows with window length W returns N windows and N
\* masks; window i (from 0) has W rows, sequence[i:i+W] followed by zero
\* rows, and mask i has 1 in its first min(W, N-i) positions and 0 after;
\* for N = 12 and W = 10 the last 9 masks have strictly decreasing counts
\* of 1 and the last mask has exactly one.
C10_SlidingWindowsAndMasks ==
    (last.op = "split_future" /\ last.status = "ok") =>
        LET N == Len(egos)
            W == future_steps
        IN  /\ Len(res) = N
            /\ Len(masks) = N
            /\ \A i \in 0..(N - 1) :
                   /\ Len(res[i + 1]) = W
                   /\ Len(masks[i + 1]) = W
                   /\ \A r \in 1..W :
                          /\ res[i + 1][r] = IF i + r <= N THEN egos[i + r]
                                             ELSE <<R(0), R(0)>>
                          /\ masks[i + 1][r] = IF r <= Min(W, N - i) THEN 1
                                               ELSE 0
            /\ (N = 12 /\ W = 10) =>
                   /\ \A j \in 4..11 : SumSeq(masks[j + 1]) < SumSeq(masks[j])
                   /\ SumSeq(masks[12]) = 1

\* C10 witness: the call on 12 rows with window length 10 has returned.
C10_Witness ==
    /\ last.op = "split_future"
    /\ last.status = "ok"
    /\ Len(egos) = 12
    /\ future_steps = 10
    /\ Len(res) = 12
    /\ SumSeq(masks[4]) = 9

=============================================================================
